---- MODULE Spec2Model ----
(***************************************************************************)
(* Signature-based offset resolution of cs2-dumper                         *)
(* (src/src/analysis/offsets.rs) and the identifier sanitizer of its       *)
(* pattern writers (src/src/output/patterns.rs).                           *)
(*                                                                         *)
(* The model follows one call of offsets(process): the loop over the five  *)
(* modules (lookup, raw read, image decode, per-module resolver, insert    *)
(* into the aggregate maps) and, inside the resolver generated by          *)
(* pattern_map!, the loop over PATTERNS (scan, base offset, callback).     *)
(* The process is the input: what its module images answer to each scan is *)
(* fixed when the pass starts.                                             *)
(***************************************************************************)
EXTENDS Integers, Sequences, FiniteSets, TLC

\* Delta added by the dwPrediction callback (0x180).
LocalPlayerPawnDelta == 384

\* Element size of the index-scaling callback (mov ecx, [rcx + rax * 8]).
LocalPlayerScale == 8

\* Factor of lea rax, [rax + rax * 2]: the `rva * 2` of line 113.
LocalPlayerDouble == 2

\* The largest capture of a u1 (one unsigned byte).
U1Max == 255

--------------------------------------------------------------------------
(* Rva is u32.  A u32 is held as its two 16-bit halves: [hi, lo] stands    *)
(* for hi * 65536 + lo.  `+` and `*` on u32 give the wrapped value, and    *)
(* tell whether the exact result left the type: a build with overflow      *)
(* checks panics there, a build without them goes on with the wrapped      *)
(* value.                                                                  *)

HalfWord == 65536

\* The u32 of the number n, 0 <= n < 2^31.
Rva(n) == [hi |-> n \div HalfWord, lo |-> n % HalfWord]

\* u32::MAX - 0xFF = 0xFFFFFF00 and u32::MAX - 0xF = 0xFFFFFFF0.
RvaNearMax == [hi |-> HalfWord - 1, lo |-> HalfWord - 256]

NegativeDisplacement == [hi |-> HalfWord - 1, lo |-> HalfWord - 16]

\* a + b on u32.
u32_add(a, b) ==
    LET lo == a.lo + b.lo
        hi == a.hi + b.hi + (lo \div HalfWord)
    IN  [value |-> [hi |-> hi % HalfWord, lo |-> lo % HalfWord],
         overflow |-> hi >= HalfWord]

\* a * k on u32, for a literal k of the source (2 and 8).
u32_mul(a, k) ==
    LET lo == a.lo * k
        hi == a.hi * k + (lo \div HalfWord)
    IN  [value |-> [hi |-> hi % HalfWord, lo |-> lo % HalfWord],
         overflow |-> hi >= HalfWord]

\* u32::MAX.
U32Max == [hi |-> HalfWord - 1, lo |-> HalfWord - 1]

\* A u64 is held as its two u32 halves.  `value as u64`:
as_u64(a) == [hi |-> Rva(0), lo |-> a]

\* a + b on u64.
u64_add(a, b) ==
    LET lo == u32_add(a.lo, b.lo)
        hi == u32_add(a.hi, b.hi)
        carried == u32_add(hi.value, Rva(IF lo.overflow THEN 1 ELSE 0))
    IN  [value |-> [hi |-> carried.value, lo |-> lo.value],
         overflow |-> hi.overflow \/ carried.overflow]

--------------------------------------------------------------------------
(* BTreeMap<String, _>: a function from the keys present to their values. *)

EmptyMap == << >>

\* BTreeMap::insert: adds the key, or replaces the value of a key present.
Insert(map, key, value) ==
    [k \in (DOMAIN map) \cup {key} |-> IF k = key THEN value ELSE map[k]]

Keys(map) == DOMAIN map

--------------------------------------------------------------------------
(* The catalog: pattern_map! { module => { name => pattern => callback } } *)
(* in declaration order.  cap is the kind of the pattern's first capture:  *)
(* "rva" for a saved cursor ('), "u1"/"u2"/"u4" for an unsigned immediate. *)

client_PATTERNS ==
    << [name |-> "dwCSGOInput", pattern |-> "488905${'} 0f57c0 0f1105",
        cap |-> "rva", callback |-> "client_dwCSGOInput"],
       [name |-> "dwEntityList", pattern |-> "488935${'} 4885f6",
        cap |-> "rva", callback |-> "None"],
       [name |-> "dwGameEntitySystem", pattern |-> "488b1d${'} 48891d",
        cap |-> "rva", callback |-> "None"],
       [name |-> "dwGameEntitySystem_highestEntityIndex",
        pattern |-> "8b81u2?? 8902 488bc2 c3 cccccccc 48895c24? 48896c24",
        cap |-> "u2", callback |-> "None"],
       [name |-> "dwGameRules", pattern |-> "48891d${'} ff15${} 84c0",
        cap |-> "rva", callback |-> "None"],
       [name |-> "dwGlobalVars", pattern |-> "488915${'} 488942",
        cap |-> "rva", callback |-> "None"],
       [name |-> "dwGlowManager", pattern |-> "488b05${'} c3 cccccccccccccccc 8b41",
        cap |-> "rva", callback |-> "None"],
       [name |-> "dwLocalPlayerController", pattern |-> "488905${'} 8b9e",
        cap |-> "rva", callback |-> "None"],
       [name |-> "dwPlantedC4", pattern |-> "488b15${'} 41ffc0",
        cap |-> "rva", callback |-> "None"],
       [name |-> "dwPrediction",
        pattern |-> "488d05${'} c3 cccccccccccccccc 4883ec? 8b0d",
        cap |-> "rva", callback |-> "client_dwPrediction"],
       [name |-> "dwSensitivity", pattern |-> "488d0d${[8]'} 440f28c1 0f28f3 0f28fa e8",
        cap |-> "rva", callback |-> "None"],
       [name |-> "dwSensitivity_sensitivity",
        pattern |-> "ff50u1 4c8bc6 488d55? 488bcf e8${} 84c0 0f85${} 4c8d45? 8bd3 488bcf e8${} e9${} f30f1006",
        cap |-> "u1", callback |-> "None"],
       [name |-> "dwViewMatrix", pattern |-> "488d0d${'} 48c1e006",
        cap |-> "rva", callback |-> "None"],
       [name |-> "dwViewRender", pattern |-> "488905${'} 488bc8 4885c0",
        cap |-> "rva", callback |-> "None"],
       [name |-> "dwWeaponC4", pattern |-> "488b15${'} 488b5c24? ffc0 8905[4] 488bc7",
        cap |-> "rva", callback |-> "None"] >>

engine2_PATTERNS ==
    << [name |-> "dwBuildNumber", pattern |-> "8905${'} 488d0d${} ff15${} 488b0d",
        cap |-> "rva", callback |-> "None"],
       [name |-> "dwNetworkGameClient", pattern |-> "48893d${'} 488d15",
        cap |-> "rva", callback |-> "None"],
       [name |-> "dwNetworkGameClient_clientTickCount",
        pattern |-> "8b81u4 c3 cccccccccccccccccc 8b81${} c3 cccccccccccccccccc 83b9",
        cap |-> "u4", callback |-> "None"],
       [name |-> "dwNetworkGameClient_deltaTick", pattern |-> "89b3u4 8b45",
        cap |-> "u4", callback |-> "None"],
       [name |-> "dwNetworkGameClient_isBackgroundMap",
        pattern |-> "0fb681u4 c3 cccccccccccccccc 0fb681${} c3 cccccccccccccccc 48895c24",
        cap |-> "u4", callback |-> "None"],
       [name |-> "dwNetworkGameClient_localPlayer",
        pattern |-> "4883c0u1 488d0440 8b0cc1",
        cap |-> "u1", callback |-> "engine2_dwNetworkGameClient_localPlayer"],
       [name |-> "dwNetworkGameClient_maxClients",
        pattern |-> "8b81u4 c3cccccccccccccccccc 8b81${} ffc0",
        cap |-> "u4", callback |-> "None"],
       [name |-> "dwNetworkGameClient_serverTickCount",
        pattern |-> "8b81u4 c3 cccccccccccccccccc 83b9",
        cap |-> "u4", callback |-> "None"],
       [name |-> "dwNetworkGameClient_signOnState", pattern |-> "448b81u4 488d0d",
        cap |-> "u4", callback |-> "None"],
       [name |-> "dwWindowHeight", pattern |-> "8b05${'} 8903",
        cap |-> "rva", callback |-> "None"],
       [name |-> "dwWindowWidth", pattern |-> "8b05${'} 8907",
        cap |-> "rva", callback |-> "None"] >>

input_system_PATTERNS ==
    << [name |-> "dwInputSystem", pattern |-> "488905${'} 488d05",
        cap |-> "rva", callback |-> "None"] >>

matchmaking_PATTERNS ==
    << [name |-> "dwGameTypes", pattern |-> "488d0d${'} 33d2",
        cap |-> "rva", callback |-> "None"],
       [name |-> "dwGameTypes_mapName", pattern |-> "488b81u4 4885c074? 4883c0",
        cap |-> "u4", callback |-> "None"] >>

soundsystem_PATTERNS ==
    << [name |-> "dwSoundSystem", pattern |-> "488d05${'} c3 cccccccccccccccc 488915",
        cap |-> "rva", callback |-> "None"],
       [name |-> "dwSoundSystem_engineViewData", pattern |-> "0f1147u1 0f104b",
        cap |-> "u1", callback |-> "None"] >>

\* The fixed list of offsets(): (module name, resolver), in list order.
modules ==
    << [name |-> "client.dll", patterns |-> client_PATTERNS],
       [name |-> "engine2.dll", patterns |-> engine2_PATTERNS],
       [name |-> "inputsystem.dll", patterns |-> input_system_PATTERNS],
       [name |-> "matchmaking.dll", patterns |-> matchmaking_PATTERNS],
       [name |-> "soundsystem.dll", patterns |-> soundsystem_PATTERNS] >>

ModuleNames == {modules[i].name : i \in 1..Len(modules)}

PATTERNS(i) == modules[i].patterns

PatternNames(i) == {PATTERNS(i)[j].name : j \in 1..Len(PATTERNS(i))}

ModuleIndices == 1..Len(modules)

\* The entries of the catalog: <<module index, index in PATTERNS>>.
Entries ==
    UNION { { <<i, j>> : j \in 1..Len(PATTERNS(i)) } : i \in ModuleIndices }

--------------------------------------------------------------------------
(* The scanner.  finds_code either fails, or fills the save array: slot 0  *)
(* with the start of the match, slot 1 with the pattern's first capture.   *)
(* A view is the image of one module: what it answers to each pattern     *)
(* text it is asked about, and the ImageBase of its optional header.      *)

Save(start, capture) == [i \in 0..1 |-> IF i = 0 THEN start ELSE capture]

\* vec![0; save_len(compiled_pat)] left as it was: the scan found nothing.
NotFound == [found |-> FALSE, save |-> Save(Rva(0), Rva(0))]

Found(start, capture) == [found |-> TRUE, save |-> Save(start, capture)]

\* The pattern of the secondary scan done by the dwCSGOInput callback.
SecondaryPattern == "f2410f108430u4"

\* view.scanner().finds_code(pattern, &mut save)
finds_code(view, pat) == view.code[pat]

--------------------------------------------------------------------------
(* The callbacks of the catalog: fn(&PeView, &mut BTreeMap, Rva).  Each    *)
(* gives the map as the callback leaves it when its arithmetic wraps, and  *)
(* whether one of its u32 operations overflowed.                           *)

\* dwCSGOInput: a secondary scan; on success dwViewAngles = rva + save[1].
client_dwCSGOInput_callback(view, map, rva) ==
    LET scan == finds_code(view, SecondaryPattern)
        sum == u32_add(rva, scan.save[1])
    IN  IF scan.found
        THEN [map |-> Insert(map, "dwViewAngles", sum.value),
              overflow |-> sum.overflow]
        ELSE [map |-> map, overflow |-> FALSE]

\* Mutant: the callback builds a map of its own instead of adding to `map`.
client_dwPrediction_callback_Replaces(view, map, rva) ==
    LET sum == u32_add(rva, Rva(LocalPlayerPawnDelta))
    IN  [map |-> Insert(EmptyMap, "dwLocalPlayerPawn", sum.value),
         overflow |-> sum.overflow]

\* Mutant: the derived value is written under dwViewAngles, the name the
\* dwCSGOInput callback writes.
client_dwPrediction_callback_SharedName(view, map, rva) ==
    LET sum == u32_add(rva, Rva(LocalPlayerPawnDelta))
    IN  [map |-> Insert(map, "dwViewAngles", sum.value),
         overflow |-> sum.overflow]

\* dwPrediction: dwLocalPlayerPawn = rva + 0x180.
client_dwPrediction_callback(view, map, rva) ==
    LET sum == u32_add(rva, Rva(LocalPlayerPawnDelta))
    IN  [map |-> Insert(map, "dwLocalPlayerPawn", sum.value),
         overflow |-> sum.overflow]

\* Mutant: the `add` of lea rax, [rax + rax * 2] is lost.
engine2_dwNetworkGameClient_localPlayer_callback_NoBase(view, map, rva) ==
    LET double == u32_mul(rva, LocalPlayerDouble)
        scaled == u32_mul(double.value, LocalPlayerScale)
    IN  [map |-> Insert(map, "dwNetworkGameClient_localPlayer", scaled.value),
         overflow |-> double.overflow \/ scaled.overflow]

\* dwNetworkGameClient_localPlayer: (rva + (rva * 2)) * 8 under its own name.
engine2_dwNetworkGameClient_localPlayer_callback(view, map, rva) ==
    LET double == u32_mul(rva, LocalPlayerDouble)
        triple == u32_add(rva, double.value)
        scaled == u32_mul(triple.value, LocalPlayerScale)
    IN  [map |-> Insert(map, "dwNetworkGameClient_localPlayer", scaled.value),
         overflow |-> double.overflow \/ triple.overflow \/ scaled.overflow]

\* if let Some(callback) = callback { callback(&view, &mut offset_map, rva) }
CallCallback(callback, view, map, rva) ==
    CASE callback = "client_dwCSGOInput" ->
             client_dwCSGOInput_callback(view, map, rva)
      [] callback = "client_dwPrediction" ->
             client_dwPrediction_callback(view, map, rva)
      [] callback = "engine2_dwNetworkGameClient_localPlayer" ->
             engine2_dwNetworkGameClient_localPlayer_callback(view, map, rva)
      [] OTHER -> [map |-> map, overflow |-> FALSE]

--------------------------------------------------------------------------
(* One iteration of the resolver's loop over PATTERNS (lines 40-58): the   *)
(* maps after it, the names logged by error!("outdated pattern: .."), and  *)
(* whether the callback's arithmetic overflowed.                           *)

\* Mutant: the signature text is recorded only after a successful scan.
LoopBody_TextAfterMatch(entry, view, offset_map0, pattern_map0) ==
    LET scan == finds_code(view, entry.pattern)
    IN  IF ~scan.found
        THEN [offset_map |-> offset_map0, pattern_map |-> pattern_map0,
              outdated |-> <<entry.name>>, overflow |-> FALSE]
        ELSE LET rva == scan.save[1]
                 om == Insert(offset_map0, entry.name, rva)
                 cb == CallCallback(entry.callback, view, om, rva)
             IN  [offset_map |-> cb.map,
                  pattern_map |-> Insert(pattern_map0, entry.name, entry.pattern),
                  outdated |-> << >>, overflow |-> cb.overflow]

\* Mutant: a miss is skipped without the error! line.
LoopBody_SilentMiss(entry, view, offset_map0, pattern_map0) ==
    LET pm == Insert(pattern_map0, entry.name, entry.pattern)
        scan == finds_code(view, entry.pattern)
    IN  IF ~scan.found
        THEN [offset_map |-> offset_map0, pattern_map |-> pm,
              outdated |-> << >>, overflow |-> FALSE]
        ELSE LET rva == scan.save[1]
                 om == Insert(offset_map0, entry.name, rva)
                 cb == CallCallback(entry.callback, view, om, rva)
             IN  [offset_map |-> cb.map, pattern_map |-> pm,
                  outdated |-> << >>, overflow |-> cb.overflow]

\* Mutant: the offset is inserted before the scan's result is tested.
LoopBody_InsertBeforeCheck(entry, view, offset_map0, pattern_map0) ==
    LET pm == Insert(pattern_map0, entry.name, entry.pattern)
        scan == finds_code(view, entry.pattern)
        rva == scan.save[1]
        om == Insert(offset_map0, entry.name, rva)
        cb == CallCallback(entry.callback, view, om, rva)
    IN  IF ~scan.found
        THEN [offset_map |-> om, pattern_map |-> pm,
              outdated |-> <<entry.name>>, overflow |-> FALSE]
        ELSE [offset_map |-> cb.map, pattern_map |-> pm,
              outdated |-> << >>, overflow |-> cb.overflow]

\* Mutant: the base offset is taken from save[0], the start of the match.
LoopBody_Slot0(entry, view, offset_map0, pattern_map0) ==
    LET pm == Insert(pattern_map0, entry.name, entry.pattern)
        scan == finds_code(view, entry.pattern)
    IN  IF ~scan.found
        THEN [offset_map |-> offset_map0, pattern_map |-> pm,
              outdated |-> <<entry.name>>, overflow |-> FALSE]
        ELSE LET rva == scan.save[0]
                 om == Insert(offset_map0, entry.name, rva)
                 cb == CallCallback(entry.callback, view, om, rva)
             IN  [offset_map |-> cb.map, pattern_map |-> pm,
                  outdated |-> << >>, overflow |-> cb.overflow]

LoopBody(entry, view, offset_map0, pattern_map0) ==
    LET pm == Insert(pattern_map0, entry.name, entry.pattern)
        scan == finds_code(view, entry.pattern)
    IN  IF ~scan.found
        THEN [offset_map |-> offset_map0, pattern_map |-> pm,
              outdated |-> <<entry.name>>, overflow |-> FALSE]
        ELSE LET rva == scan.save[1]
                 om == Insert(offset_map0, entry.name, rva)
                 cb == CallCallback(entry.callback, view, om, rva)
             IN  [offset_map |-> cb.map, pattern_map |-> pm,
                  outdated |-> << >>, overflow |-> cb.overflow]

\* Mutant: `break` instead of `continue` after a miss.
NextIteration_BreakOnMiss(todo0, outdated) ==
    IF outdated # << >> THEN << >> ELSE Tail(todo0)

\* `continue` after a miss, and the end of the loop body after a match: the
\* loop goes on with the entries not yet visited.
NextIteration(todo0, outdated) == Tail(todo0)

\* The keys client's offset_map can hold, in the order a BTreeMap yields
\* them (the byte order of the names): the names of the catalog and the
\* two names its callbacks add.
client_KeyOrder ==
    << "dwCSGOInput", "dwEntityList", "dwGameEntitySystem",
       "dwGameEntitySystem_highestEntityIndex", "dwGameRules", "dwGlobalVars",
       "dwGlowManager", "dwLocalPlayerController", "dwLocalPlayerPawn",
       "dwPlantedC4", "dwPrediction", "dwSensitivity",
       "dwSensitivity_sensitivity", "dwViewAngles", "dwViewMatrix",
       "dwViewRender", "dwWeaponC4" >>

\* The keys the offset_map of module i can hold, in BTreeMap order: the
\* catalogs declare their names in that order.
KeyOrder(i) ==
    IF modules[i].name = "client.dll"
    THEN client_KeyOrder
    ELSE [j \in 1..Len(PATTERNS(i)) |-> PATTERNS(i)[j].name]

\* Lines 60-68 with the logger at debug level: for each entry of offset_map,
\* in key order, `*value as u64 + view.optional_header().ImageBase` is
\* computed and a line is logged.  Gives the keys at which the addition
\* leaves u64, in key order.
LogFoundOffsets(i, view, map) ==
    SelectSeq(KeyOrder(i),
              LAMBDA k : /\ k \in DOMAIN map
                         /\ u64_add(as_u64(map[k]), view.ImageBase).overflow)

\* The order in which `for .. in &PATTERNS` yields the entries of client
\* and of engine2 in the build with phf 0.11.3 (indices in declaration
\* order): the map's own order, fixed when the macro is expanded.
client_PhfOrder == << 9, 7, 10, 2, 5, 8, 4, 11, 13, 14, 1, 6, 12, 15, 3 >>

engine2_PhfOrder == << 3, 11, 9, 7, 8, 5, 10, 4, 2, 6, 1 >>

\* The orders in which the loop of module i visits its entries: the order
\* of the phf build for client and engine2; for the modules of one or two
\* entries, either order of the entries.
IterationOrders(i) ==
    LET n == Len(PATTERNS(i))
    IN  CASE modules[i].name = "client.dll" -> {client_PhfOrder}
          [] modules[i].name = "engine2.dll" -> {engine2_PhfOrder}
          [] OTHER -> { [k \in 1..n |-> k], [k \in 1..n |-> n + 1 - k] }

--------------------------------------------------------------------------
(* The process under inspection.  A process is what the images of its five *)
(* modules answer to the scanner: for each module a view, that is, an      *)
(* answer for every pattern text of the module and for the secondary       *)
(* pattern.  The passes checked run on a family of such processes.         *)

\* The index in PATTERNS(i) of the entry with pattern text p, and of the
\* entry named n.
EntryOf(i, p) == CHOOSE j \in 1..Len(PATTERNS(i)) : PATTERNS(i)[j].pattern = p

EntryNamed(i, n) == CHOOSE j \in 1..Len(PATTERNS(i)) : PATTERNS(i)[j].name = n

\* Where the images hold pattern j of module i (save[0]).
MatchStart(i, j) == Rva(65536 * i + 256 * j)

\* The first capture the images give pattern j of module i unless said
\* otherwise: an RVA for a saved cursor, an immediate of the capture's
\* width otherwise (0x0A for the one-byte captures).
DefaultCapture(i, j) ==
    LET e == PATTERNS(i)[j]
    IN  CASE e.cap = "rva" -> Rva(1048576 * i + 4096 * j)
          [] e.cap = "u1" -> Rva(10)
          [] e.cap = "u2" -> Rva(8192 + 8 * j)
          [] e.cap = "u4" -> Rva(512 + 8 * j)

DefaultCaptures == [e \in Entries |-> DefaultCapture(e[1], e[2])]

\* What the secondary scan can answer: nothing, a small four-byte
\* displacement, or a negative one (0xFFFFFFF0), with which rva + save[1]
\* leaves u32.
SecondaryFound == Found(Rva(24576), Rva(1528))

SecondaryAnswers == { NotFound, SecondaryFound, Found(Rva(24576), NegativeDisplacement) }

\* The captures tried for dwPrediction: its default, and one with which
\* rva + 0x180 leaves u32.
PredictionEntry == << 1, EntryNamed(1, "dwPrediction") >>

PredictionCaptures == { DefaultCaptures[PredictionEntry], RvaNearMax }

LocalPlayerEntry == << 2, EntryNamed(2, "dwNetworkGameClient_localPlayer") >>

\* optional_header().ImageBase of the images unless said otherwise:
\* 0x180000000, where a 64-bit DLL is linked by default.
DefaultImageBase == [hi |-> Rva(1), lo |-> [hi |-> HalfWord \div 2, lo |-> 0]]

\* u64::MAX: with this ImageBase `value as u64 + ImageBase` leaves u64 for
\* every value but 0.
ImageBaseMax == [hi |-> U32Max, lo |-> U32Max]

\* The view of module i in a process where the entries in `stale` are not
\* found and the others are found with `captures`.
ViewOf(i, stale, captures, secondary) ==
    [code |->
        [p \in { PATTERNS(i)[j].pattern : j \in 1..Len(PATTERNS(i)) }
                 \cup {SecondaryPattern} |->
            IF p = SecondaryPattern THEN secondary
            ELSE IF << i, EntryOf(i, p) >> \in stale THEN NotFound
            ELSE Found(MatchStart(i, EntryOf(i, p)),
                       captures[<< i, EntryOf(i, p) >>])],
     ImageBase |-> DefaultImageBase]

ProcessOf(stale, captures, secondary) ==
    [m \in ModuleNames |->
        ViewOf(CHOOSE i \in ModuleIndices : modules[i].name = m,
               stale, captures, secondary)]

\* The process p with the images of all its modules at ImageBase `base`.
WithImageBase(p, base) == [m \in DOMAIN p |-> [p[m] EXCEPT !.ImageBase = base]]

\* The sets of stale entries tried with the default captures: none, every
\* single entry, every two entries, and every set of whole modules.
StaleSets ==
    { {a, b} : a \in Entries, b \in Entries }
      \cup { { e \in Entries : e[1] \in M } : M \in SUBSET ModuleIndices }

\* The sets of stale entries tried with every capture and secondary answer:
\* none, and every single entry.
SmallStaleSets == { {} } \cup { {a} : a \in Entries }

\* The sets of stale entries tried with ImageBase u64::MAX: none, every
\* single entry, and all of client.
MaxBaseStaleSets == SmallStaleSets \cup { { e \in Entries : e[1] = 1 } }

Processes ==
    { ProcessOf(S, DefaultCaptures, SecondaryFound) : S \in StaleSets }
      \cup { ProcessOf(S, [DefaultCaptures EXCEPT ![PredictionEntry] = c], s) :
               S \in SmallStaleSets, c \in PredictionCaptures, s \in SecondaryAnswers }
      \cup { WithImageBase(ProcessOf(S, DefaultCaptures, SecondaryFound), ImageBaseMax) :
               S \in MaxBaseStaleSets }

\* The builds and logger settings a pass can run under.
Environments == [overflow_checks : BOOLEAN, debug_enabled : BOOLEAN]

--------------------------------------------------------------------------
(* State of one call of offsets(process), and of one call of               *)
(* sanitize_identifier.                                                    *)

VARIABLES
    process,          \* the argument of offsets(): the views of its modules
    overflow_checks,  \* the build: TRUE with overflow checks (the dev
                      \* profile), FALSE without (the release profile)
    debug_enabled,    \* the logger: TRUE when level debug is enabled, so
                      \* that debug! evaluates its arguments
    pc,               \* position in offsets(): lookup, read, decode, resolve,
                      \* scan, insert, returned; panicked after a panic
    mi,               \* index in `modules` of the module being handled
    todo,             \* the resolver's loop: indices of PATTERNS still to visit
    offset_map,       \* the resolver's offset_map
    pattern_map,      \* the resolver's pattern_map
    offset_map_all,   \* the aggregate of offsets()
    pattern_map_all,  \* the aggregate of offsets()
    result,           \* what offsets() returned, or the panic that ended it
    trace,            \* the module-level steps taken: [op, module, ok]
    scans,            \* per module, what the scanner answered for each
                      \* pattern scanned so far
    diag,             \* the error! log: how often each "outdated pattern"
                      \* line was written, per module being resolved
    arg_name,              \* sanitize_identifier: the argument `name`
    arg_for_rust_constant, \* sanitize_identifier: the argument `for_rust_constant`
    sanitized_out          \* sanitize_identifier: the String returned

vars == << process, overflow_checks, debug_enabled, pc, mi, todo, offset_map, pattern_map, offset_map_all,
           pattern_map_all, result, trace, scans, diag,
           arg_name, arg_for_rust_constant, sanitized_out >>

\* The variables of a call of sanitize_identifier (output/patterns.rs).
sanitizeVars == << arg_name, arg_for_rust_constant, sanitized_out >>

\* No call of sanitize_identifier is under way.
NoSanitizeCall ==
    /\ arg_name = << >>
    /\ arg_for_rust_constant = FALSE
    /\ sanitized_out = << >>

Pending == [tag |-> "Pending"]

\* Ok((offset_map_all, pattern_map_all))
Ok(offsets, patterns) == [tag |-> "Ok", offsets |-> offsets, patterns |-> patterns]

\* The `?` of lines 149-155: the error is returned, and nothing else.
Err(error) == [tag |-> "Err", error |-> error]

\* "attempt to add/multiply with overflow": in the callback of the entry
\* `name` (at = "callback") or in the debug! line of the key `name` (at =
\* "debug").  offsets() does not return.
Panic(module, name, at) ==
    [tag |-> "Panic", module |-> module, name |-> name, at |-> at]

Step(op, ok) == [op |-> op, module |-> modules[mi].name, ok |-> ok]

\* offsets(process) is called on one of `processes`, in a build and with a
\* logger of `environments`.
InitPass(processes, environments) ==
    /\ process \in processes
    /\ \E e \in environments :
         /\ overflow_checks = e.overflow_checks
         /\ debug_enabled = e.debug_enabled
    /\ pc = "lookup"
    /\ mi = 1
    /\ todo = << >>
    /\ offset_map = EmptyMap
    /\ pattern_map = EmptyMap
    /\ offset_map_all = EmptyMap
    /\ pattern_map_all = EmptyMap
    /\ result = Pending
    /\ trace = << >>
    /\ scans = [m \in ModuleNames |-> EmptyMap]
    /\ diag = EmptyMap
    /\ NoSanitizeCall

Init == InitPass(Processes, Environments)

\* Mutant: a failure ends the pass with what was aggregated so far.
Fallible_ReturnsPartial(op, ok, error, next) ==
    /\ trace' = Append(trace, Step(op, ok))
    /\ IF ok
       THEN /\ pc' = next
            /\ result' = result
       ELSE /\ pc' = "returned"
            /\ result' = Ok(offset_map_all, pattern_map_all)
    /\ UNCHANGED << process, overflow_checks, debug_enabled, mi, todo, offset_map,
                    pattern_map, offset_map_all,
                    pattern_map_all, scans, diag >>
    /\ UNCHANGED sanitizeVars

\* Mutant: the error of a failed call is dropped and the pass goes on.
Fallible_IgnoresFailure(op, ok, error, next) ==
    /\ trace' = Append(trace, Step(op, ok))
    /\ pc' = next
    /\ result' = result
    /\ UNCHANGED << process, overflow_checks, debug_enabled, mi, todo, offset_map,
                    pattern_map, offset_map_all,
                    pattern_map_all, scans, diag >>
    /\ UNCHANGED sanitizeVars

\* A fallible call of a collaborator followed by `?`: on success the pass
\* goes on to `next`, on failure offsets() returns the error at once.
Fallible(op, ok, error, next) ==
    /\ trace' = Append(trace, Step(op, ok))
    /\ IF ok
       THEN /\ pc' = next
            /\ result' = result
       ELSE /\ pc' = "returned"
            /\ result' = Err(error)
    /\ UNCHANGED << process, overflow_checks, debug_enabled, mi, todo, offset_map,
                    pattern_map, offset_map_all,
                    pattern_map_all, scans, diag >>
    /\ UNCHANGED sanitizeVars

\* let module = process.module_by_name(module_name)?;
ModuleByName ==
    /\ pc = "lookup"
    /\ \E ok \in BOOLEAN : Fallible("module_by_name", ok, "ModuleNotFound", "read")

\* let buf = process.read_raw(module.base, module.size as _).data_part()?;
ReadRaw ==
    /\ pc = "read"
    /\ \E ok \in BOOLEAN : Fallible("read_raw", ok, "MemoryReadFailure", "decode")

\* let view = PeView::from_bytes(&buf)?;
FromBytes ==
    /\ pc = "decode"
    /\ \E ok \in BOOLEAN : Fallible("from_bytes", ok, "ImageParseFailure", "resolve")

\* offsets_fn(view) is entered: empty maps, and the loop over PATTERNS
\* starts, to visit the entries in one of `orders`.
Enter(orders) ==
    /\ pc = "resolve"
    /\ pc' = "scan"
    /\ offset_map' = EmptyMap
    /\ pattern_map' = EmptyMap
    /\ \E order \in orders : todo' = order
    /\ trace' = Append(trace, Step("offsets_fn", TRUE))
    /\ UNCHANGED << process, overflow_checks, debug_enabled, mi, offset_map_all,
                    pattern_map_all,
                    result, scans, diag >>
    /\ UNCHANGED sanitizeVars

\* let (offsets, patterns) = offsets_fn(view): the resolver is entered.
ResolverEnter == Enter(IterationOrders(mi))

\* What the scanner answered in one iteration: the primary scan, and the
\* secondary scan when the callback ran it.
Answer(entry, view) ==
    [primary |-> finds_code(view, entry.pattern),
     secondary_ran |-> /\ finds_code(view, entry.pattern).found
                       /\ entry.callback = "client_dwCSGOInput",
     secondary |-> IF /\ finds_code(view, entry.pattern).found
                      /\ entry.callback = "client_dwCSGOInput"
                   THEN finds_code(view, SecondaryPattern)
                   ELSE NotFound]

\* error!("outdated pattern: {}", name): one more line for that name.
LogLine(log, line) ==
    IF line \in DOMAIN log THEN [log EXCEPT ![line] = @ + 1] ELSE Insert(log, line, 1)

\* The loop body at entry j of the module being resolved, on the view of
\* that module.  When the callback's arithmetic overflows, a build with
\* overflow checks panics (the resolver's maps are dropped, offsets() does
\* not return) and a build without them goes on with the wrapped value.
Iteration(j, rest) ==
    LET entry == PATTERNS(mi)[j]
        view == process[modules[mi].name]
        r == LoopBody(entry, view, offset_map, pattern_map)
    IN  /\ scans' = [scans EXCEPT ![modules[mi].name] =
                         Insert(@, entry.name, Answer(entry, view))]
        /\ IF r.overflow /\ overflow_checks
           THEN /\ pc' = "panicked"
                /\ result' = Panic(modules[mi].name, entry.name, "callback")
                /\ offset_map' = EmptyMap
                /\ pattern_map' = EmptyMap
                /\ todo' = << >>
                /\ diag' = diag
           ELSE /\ pc' = pc
                /\ result' = result
                /\ offset_map' = r.offset_map
                /\ pattern_map' = r.pattern_map
                /\ diag' = IF r.outdated = << >> THEN diag
                           ELSE LogLine(diag, [module |-> modules[mi].name,
                                               name |-> r.outdated[1]])
                /\ todo' = NextIteration(<< j >> \o rest, r.outdated)
        /\ UNCHANGED << process, overflow_checks, debug_enabled, mi, offset_map_all,
                        pattern_map_all, trace >>
        /\ UNCHANGED sanitizeVars

\* One iteration of `for (&name, (pattern_str, compiled_pat, callback)) in &PATTERNS`.
ScanPattern ==
    /\ pc = "scan"
    /\ todo # << >>
    /\ Iteration(Head(todo), Tail(todo))

\* The loop over PATTERNS is over: the found offsets are logged (debug!,
\* lines 60-68) and (offset_map, pattern_map) is returned to offsets().
\* With the logger at debug level the address of each offset is computed
\* in u64; where that addition overflows, a build with overflow checks
\* panics (the maps are dropped, offsets() does not return) and a build
\* without them logs the wrapped address.
ResolverReturn ==
    /\ pc = "scan"
    /\ todo = << >>
    /\ LET overflows == IF debug_enabled
                        THEN LogFoundOffsets(mi, process[modules[mi].name], offset_map)
                        ELSE << >>
       IN  IF overflows # << >> /\ overflow_checks
           THEN /\ pc' = "panicked"
                /\ result' = Panic(modules[mi].name, Head(overflows), "debug")
                /\ offset_map' = EmptyMap
                /\ pattern_map' = EmptyMap
           ELSE /\ pc' = "insert"
                /\ UNCHANGED << result, offset_map, pattern_map >>
    /\ UNCHANGED << process, overflow_checks, debug_enabled, mi, todo,
                    offset_map_all, pattern_map_all, trace, scans, diag >>
    /\ UNCHANGED sanitizeVars

\* Lines 158-159, then the next module, or Ok((offset_map_all, pattern_map_all)).
AggregateInsert ==
    /\ pc = "insert"
    /\ offset_map_all' = Insert(offset_map_all, modules[mi].name, offset_map)
    /\ pattern_map_all' = Insert(pattern_map_all, modules[mi].name, pattern_map)
    /\ trace' = Append(trace, Step("insert", TRUE))
    /\ offset_map' = EmptyMap
    /\ pattern_map' = EmptyMap
    /\ IF mi < Len(modules)
       THEN /\ mi' = mi + 1
            /\ pc' = "lookup"
            /\ result' = result
       ELSE /\ mi' = mi
            /\ pc' = "returned"
            /\ result' = Ok(offset_map_all', pattern_map_all')
    /\ UNCHANGED << process, overflow_checks, debug_enabled, todo, scans, diag >>
    /\ UNCHANGED sanitizeVars

Next ==
    \/ ModuleByName
    \/ ReadRaw
    \/ FromBytes
    \/ ResolverEnter
    \/ ScanPattern
    \/ ResolverReturn
    \/ AggregateInsert

Spec == Init /\ [][Next]_vars

--------------------------------------------------------------------------
(* Vocabulary of the properties.                                           *)

\* A collaborator call of the pass failed.
FatalFailure == \E k \in 1..Len(trace) : ~trace[k].ok

\* The resolver of module i has returned its two maps.
ResolverReturned(i) ==
    \/ mi = i /\ pc = "insert"
    \/ modules[i].name \in DOMAIN offset_map_all

\* The maps the resolver of module i returned.
ReturnedOffsets(i) ==
    IF mi = i /\ pc = "insert" THEN offset_map ELSE offset_map_all[modules[i].name]

ReturnedPatterns(i) ==
    IF mi = i /\ pc = "insert" THEN pattern_map ELSE pattern_map_all[modules[i].name]

\* The offset map of module i as far as it is built: the resolver's own map
\* while it runs, the returned one afterwards, empty before.
OffsetsSoFar(i) ==
    IF mi = i /\ pc \in {"scan", "insert"} THEN offset_map
    ELSE IF modules[i].name \in DOMAIN offset_map_all
         THEN offset_map_all[modules[i].name]
         ELSE EmptyMap

\* What the scanner answered for the patterns of module i scanned so far.
Scanned(i) == scans[modules[i].name]

\* The names of module i whose primary scan reported not-found.
Missed(i) == {n \in DOMAIN Scanned(i) : ~Scanned(i)[n].primary.found}

Matched(i) == {n \in DOMAIN Scanned(i) : Scanned(i)[n].primary.found}

\* The names a callback of module i inserts that are not the name of its
\* own pattern: dwViewAngles and dwLocalPlayerPawn, both in client.
DerivedNames(i) ==
    IF modules[i].name = "client.dll" THEN {"dwViewAngles", "dwLocalPlayerPawn"} ELSE {}

\* The pass ended in a panic raised elsewhere than in the callback of
\* entry n of module i.
PanickedElsewhere(i, n) ==
    /\ result.tag = "Panic"
    /\ << result.module, result.name, result.at >> # << modules[i].name, n, "callback" >>

--------------------------------------------------------------------------
\* C1: when a module lookup, a raw read or an image decode fails, offsets()
\* has returned, what it returned is an error naming that failure, and the
\* returned value holds no aggregate mapping, whatever earlier modules had
\* already put into the aggregate.
C1_FatalFailureReturnsErrorOnly ==
    FatalFailure =>
        /\ pc = "returned"
        /\ result.tag = "Err"
        /\ DOMAIN result = {"tag", "error"}
        /\ result.error =
               (CASE trace[Len(trace)].op = "module_by_name" -> "ModuleNotFound"
                  [] trace[Len(trace)].op = "read_raw" -> "MemoryReadFailure"
                  [] trace[Len(trace)].op = "from_bytes" -> "ImageParseFailure"
                  [] OTHER -> "none")

\* engine2.dll is absent after client.dll was resolved and aggregated.
C1_Witness ==
    /\ pc = "returned"
    /\ result.tag = "Err"
    /\ trace[Len(trace)] =
           [op |-> "module_by_name", module |-> "engine2.dll", ok |-> FALSE]
    /\ DOMAIN offset_map_all = {"client.dll"}
    /\ "dwEntityList" \in DOMAIN offset_map_all["client.dll"]

--------------------------------------------------------------------------
\* The module-level steps of a pass that meets no failure, in order.
ModuleSteps == << "module_by_name", "read_raw", "from_bytes", "offsets_fn", "insert" >>

StepsPerModule == Len(ModuleSteps)

\* C2: the module-level steps taken are a prefix of: lookup, read, decode,
\* resolve, insert of client.dll, then the same of engine2.dll, and so on in
\* list order; only the last step taken can have failed, and then offsets()
\* has returned; patterns of a module are scanned only after its resolver
\* was entered, and all of them before its maps are inserted; so after a
\* fatal failure nothing of that module or a later one is looked up, read,
\* decoded or scanned.
C2_StrictlySequentialAndStopsAtFailure ==
    /\ \A k \in 1..Len(trace) :
         /\ k <= StepsPerModule * Len(modules)
         /\ trace[k].op = ModuleSteps[((k - 1) % StepsPerModule) + 1]
         /\ trace[k].module = modules[((k - 1) \div StepsPerModule) + 1].name
         /\ k < Len(trace) => trace[k].ok
    /\ FatalFailure => pc = "returned"
    /\ \A i \in ModuleIndices :
         /\ Scanned(i) # EmptyMap =>
              /\ Len(trace) >= StepsPerModule * (i - 1) + 4
              /\ trace[StepsPerModule * (i - 1) + 4].ok
         /\ Len(trace) >= StepsPerModule * i =>
              DOMAIN Scanned(i) = PatternNames(i)
         /\ Len(trace) < StepsPerModule * (i - 1) + 4 => Scanned(i) = EmptyMap

\* The read of matchmaking.dll failed: three modules were handled in full,
\* nothing of matchmaking.dll or soundsystem.dll was scanned.
C2_Witness ==
    /\ pc = "returned"
    /\ Len(trace) = 17
    /\ trace[17] = [op |-> "read_raw", module |-> "matchmaking.dll", ok |-> FALSE]
    /\ DOMAIN Scanned(3) = PatternNames(3)
    /\ Scanned(4) = EmptyMap
    /\ Scanned(5) = EmptyMap

--------------------------------------------------------------------------
\* C3: a primary scan that reports not-found aborts nothing: offsets()
\* returns an error only after a collaborator failure, and a panic comes
\* from the callback of a pattern that matched or from the debug! line of
\* an offset found, never from a miss; when a resolver has returned, every pattern of its module
\* was scanned and every one that matched has an offset entry; and a pass
\* that returned without collaborator failure returned Ok with all five
\* modules, however many patterns missed.
C3_MissNeverAborts ==
    /\ result.tag = "Err" => FatalFailure
    /\ result.tag = "Panic" =>
           IF result.at = "callback"
           THEN result.name \in Matched(mi)
           ELSE /\ result.name \in Matched(mi) \cup DerivedNames(mi)
                /\ Matched(mi) # {}
    /\ \A i \in ModuleIndices :
         ResolverReturned(i) =>
            /\ DOMAIN Scanned(i) = PatternNames(i)
            /\ Matched(i) \subseteq DOMAIN ReturnedOffsets(i)
    /\ (pc = "returned" /\ ~FatalFailure) =>
            /\ result.tag = "Ok"
            /\ DOMAIN result.offsets = ModuleNames
            /\ DOMAIN result.patterns = ModuleNames

\* A pass that ended in Ok although every pattern of client.dll and of
\* soundsystem.dll missed, with the patterns of engine2.dll resolved.
C3_Witness ==
    /\ pc = "returned"
    /\ result.tag = "Ok"
    /\ Missed(1) = PatternNames(1)
    /\ Missed(5) = PatternNames(5)
    /\ result.offsets["client.dll"] = EmptyMap
    /\ PatternNames(2) \subseteq DOMAIN result.offsets["engine2.dll"]

--------------------------------------------------------------------------
\* C4: the signature-text map a resolver returns has exactly the names of
\* its module's catalog as keys, each with the pattern text of the catalog,
\* whether or not the pattern matched; a pattern whose scan failed has no
\* entry under its name in the returned offset map.
C4_SignatureTextForEveryPattern ==
    \A i \in ModuleIndices :
        ResolverReturned(i) =>
            /\ DOMAIN ReturnedPatterns(i) = PatternNames(i)
            /\ \A j \in 1..Len(PATTERNS(i)) :
                 ReturnedPatterns(i)[PATTERNS(i)[j].name] = PATTERNS(i)[j].pattern
            /\ \A n \in Missed(i) : n \notin DOMAIN ReturnedOffsets(i)

\* matchmaking.dll returned with one pattern matched and one missed: two
\* signature texts, one offset.
C4_Witness ==
    /\ mi = 4
    /\ pc = "insert"
    /\ Missed(4) = {"dwGameTypes_mapName"}
    /\ DOMAIN pattern_map = {"dwGameTypes", "dwGameTypes_mapName"}
    /\ DOMAIN offset_map = {"dwGameTypes"}

--------------------------------------------------------------------------
\* C5 as stated: every key of a module's returned offset map is a key of
\* that module's returned signature-text map.
C5_OffsetKeysAreSignatureKeys ==
    \A i \in ModuleIndices :
        ResolverReturned(i) =>
            DOMAIN ReturnedOffsets(i) \subseteq DOMAIN ReturnedPatterns(i)

\* C5 (amended): apart from the derived names that client's callbacks
\* insert, which have no signature text, the keys of a module's returned
\* offset map are the keys of its signature-text map minus the names of the
\* patterns whose match failed.
C5_KeySetsEqualUpToMissesAndDerived ==
    \A i \in ModuleIndices :
        ResolverReturned(i) =>
            /\ DOMAIN ReturnedOffsets(i) \ DerivedNames(i) =
                   DOMAIN ReturnedPatterns(i) \ Missed(i)
            /\ DerivedNames(i) \cap DOMAIN ReturnedPatterns(i) = {}

\* client.dll returned with a derived entry and with a missed pattern.
C5_Witness ==
    /\ ResolverReturned(1)
    /\ "dwLocalPlayerPawn" \in DOMAIN ReturnedOffsets(1)
    /\ Missed(1) = {"dwWeaponC4"}
    /\ "dwWeaponC4" \in DOMAIN ReturnedPatterns(1)

--------------------------------------------------------------------------
\* C6 as stated: for every pattern whose primary scan succeeded, the
\* returned offset map holds capture slot 1 of that scan under its name.
C6_EveryEntryIsSlot1 ==
    \A i \in ModuleIndices :
        ResolverReturned(i) =>
            \A n \in Matched(i) :
                /\ n \in DOMAIN ReturnedOffsets(i)
                /\ ReturnedOffsets(i)[n] = Scanned(i)[n].primary.save[1]

\* C6 (amended): for every pattern whose primary scan succeeded, the
\* returned offset map holds capture slot 1 of that scan under its name,
\* except for engine2's dwNetworkGameClient_localPlayer, whose callback
\* replaces that entry by (slot1 + slot1 * 2) * 8.
C6_EntryIsSlot1ExceptScaled ==
    \A i \in ModuleIndices :
        ResolverReturned(i) =>
            \A n \in Matched(i) :
                /\ n \in DOMAIN ReturnedOffsets(i)
                /\ ReturnedOffsets(i)[n] =
                       IF /\ modules[i].name = "engine2.dll"
                          /\ n = "dwNetworkGameClient_localPlayer"
                       THEN u32_mul(Scanned(i)[n].primary.save[1], 24).value
                       ELSE Scanned(i)[n].primary.save[1]

\* engine2.dll returned with every pattern matched, the index pattern with
\* capture 0x0A (entry 0xF0) and dwBuildNumber with its own capture.
C6_Witness ==
    /\ ResolverReturned(2)
    /\ Matched(2) = PatternNames(2)
    /\ Scanned(2)["dwNetworkGameClient_localPlayer"].primary.save[1] = Rva(10)
    /\ ReturnedOffsets(2)["dwNetworkGameClient_localPlayer"] = Rva(240)
    /\ ReturnedOffsets(2)["dwBuildNumber"] = Scanned(2)["dwBuildNumber"].primary.save[1]

--------------------------------------------------------------------------
\* C7: an iteration of the resolver's loop, callback included, leaves every
\* entry that was in the offset map before the pattern was scanned in
\* place with its value, in every order of visiting the patterns, unless
\* the iteration ends in a panic.
C7_EarlierEntriesKept ==
    [][ (pc = "scan" /\ todo # << >> /\ pc' # "panicked") =>
            \A k \in DOMAIN offset_map :
                /\ k \in DOMAIN offset_map'
                /\ offset_map'[k] = offset_map[k] ]_vars

\* The dwCSGOInput callback has run in client's resolver after other
\* patterns had been resolved, among them dwPrediction with its derived
\* entry; entries are still to be visited.
C7_Witness ==
    /\ pc = "scan"
    /\ mi = 1
    /\ todo # << >>
    /\ {"dwPlantedC4", "dwPrediction", "dwLocalPlayerPawn", "dwCSGOInput",
        "dwViewAngles"} \subseteq DOMAIN offset_map
    /\ "dwGlobalVars" \notin DOMAIN Scanned(1)

--------------------------------------------------------------------------
\* C8: wherever the index pattern of engine2 has matched with base offset
\* b, b is a byte, no operation of the callback overflowed, and the entry
\* dwNetworkGameClient_localPlayer is 24 * b in u32; for b = 0x0A it is
\* 0xF0 (240).
C8_ScaledIndexIs24TimesBase ==
    "dwNetworkGameClient_localPlayer" \in Matched(2) =>
        LET b == Scanned(2)["dwNetworkGameClient_localPlayer"].primary.save[1]
        IN  /\ b.hi = 0 /\ b.lo <= U1Max
            /\ result.tag # "Panic"
            /\ "dwNetworkGameClient_localPlayer" \in DOMAIN OffsetsSoFar(2)
            /\ OffsetsSoFar(2)["dwNetworkGameClient_localPlayer"] = Rva(24 * b.lo)
            /\ b = Rva(10) =>
                   OffsetsSoFar(2)["dwNetworkGameClient_localPlayer"] = Rva(240)

\* The pass returned Ok; the index pattern had matched with base offset
\* 0x0A and its entry is 0xF0.
C8_Witness ==
    /\ pc = "returned"
    /\ result.tag = "Ok"
    /\ Scanned(2)["dwNetworkGameClient_localPlayer"].primary.save[1] = Rva(10)
    /\ result.offsets["engine2.dll"]["dwNetworkGameClient_localPlayer"] = Rva(240)

--------------------------------------------------------------------------
\* C9: once dwPrediction was scanned in client, if it matched with base
\* offset B then client's offset map holds dwLocalPlayerPawn = B + 0x180 and
\* dwPrediction = B; if it did not match, or was not scanned yet, there is
\* no dwLocalPlayerPawn entry.  (A pass that panicked in the callback of
\* another entry is not held against this.)
C9_LocalPlayerPawnIsPredictionPlusDelta ==
    IF "dwPrediction" \in Matched(1)
    THEN \/ PanickedElsewhere(1, "dwPrediction")
         \/ LET B == Scanned(1)["dwPrediction"].primary.save[1]
                sum == u32_add(B, Rva(LocalPlayerPawnDelta))
            IN  /\ {"dwPrediction", "dwLocalPlayerPawn"} \subseteq DOMAIN OffsetsSoFar(1)
                /\ OffsetsSoFar(1)["dwPrediction"] = B
                /\ ~sum.overflow
                /\ OffsetsSoFar(1)["dwLocalPlayerPawn"] = sum.value
    ELSE "dwLocalPlayerPawn" \notin DOMAIN OffsetsSoFar(1)

--------------------------------------------------------------------------
\* C10: once dwCSGOInput matched in client, its entry is the base offset of
\* the primary match; if the secondary scan of its callback found nothing
\* there is no dwViewAngles entry, no error results from it and the
\* resolver still scans all patterns of client; if the secondary scan
\* succeeded, dwViewAngles is the base offset plus its capture slot 1.  (A
\* pass that panicked in the callback of another entry is not held against
\* this.)
C10_SecondaryScanFailureSwallowed ==
    "dwCSGOInput" \in Matched(1) =>
        \/ PanickedElsewhere(1, "dwCSGOInput")
        \/ LET a == Scanned(1)["dwCSGOInput"]
               sum == u32_add(a.primary.save[1], a.secondary.save[1])
           IN  /\ a.secondary_ran
               /\ "dwCSGOInput" \in DOMAIN OffsetsSoFar(1)
               /\ OffsetsSoFar(1)["dwCSGOInput"] = a.primary.save[1]
               /\ IF a.secondary.found
                  THEN /\ "dwViewAngles" \in DOMAIN OffsetsSoFar(1)
                       /\ ~sum.overflow
                       /\ OffsetsSoFar(1)["dwViewAngles"] = sum.value
                  ELSE /\ "dwViewAngles" \notin DOMAIN OffsetsSoFar(1)
                       /\ result.tag = "Err" => FatalFailure
                       /\ ResolverReturned(1) => DOMAIN Scanned(1) = PatternNames(1)
                       /\ (pc = "returned" /\ ~FatalFailure) => result.tag = "Ok"

--------------------------------------------------------------------------
\* The "outdated pattern" lines the misses of the pass so far call for.
StaleLines ==
    UNION { { [module |-> modules[i].name, name |-> n] : n \in Missed(i) } :
            i \in ModuleIndices }

\* C11: at every point of a pass, and so in a pass that succeeded, the
\* error! log holds exactly one "outdated pattern" line for each pattern
\* whose primary scan failed and none for a pattern whose scan succeeded;
\* and an error returned by offsets() is one of the three collaborator
\* failures, never a pattern miss.
C11_OneDiagnosticPerStalePattern ==
    /\ DOMAIN diag = StaleLines
    /\ \A line \in DOMAIN diag : diag[line] = 1
    /\ result.tag = "Err" =>
           /\ FatalFailure
           /\ result.error \in {"ModuleNotFound", "MemoryReadFailure", "ImageParseFailure"}
    /\ (pc = "returned" /\ ~FatalFailure) => result.tag = "Ok"

\* A pass that succeeded with two stale patterns, one of client.dll and one
\* of soundsystem.dll: the log holds one line for each.
C11_Witness ==
    /\ pc = "returned"
    /\ result.tag = "Ok"
    /\ Missed(1) = {"dwWeaponC4"}
    /\ Missed(5) = {"dwSoundSystem"}
    /\ "dwSoundSystem_engineViewData" \in DOMAIN result.offsets["soundsystem.dll"]
    /\ DOMAIN diag = { [module |-> "client.dll", name |-> "dwWeaponC4"],
                       [module |-> "soundsystem.dll", name |-> "dwSoundSystem"] }
    /\ \A line \in DOMAIN diag : diag[line] = 1

--------------------------------------------------------------------------
(* The index-scaling callback over every capture its pattern can hand      *)
(* over: "4883c0u1 .." captures one unsigned byte.  The passes run on the  *)
(* processes in which every pattern is found, one for each byte.           *)

ScaleProcesses ==
    { ProcessOf({}, [DefaultCaptures EXCEPT ![LocalPlayerEntry] = Rva(b)], SecondaryFound) :
        b \in 0..U1Max }

InitScale == InitPass(ScaleProcesses, Environments)



SpecScale == InitScale /\ [][Next]_vars

--------------------------------------------------------------------------
(* sanitize_identifier (output/patterns.rs, lines 12-49).  A char is its   *)
(* Unicode code point and a string the sequence of its chars.  The char    *)
(* classes are those of Rust's char methods, given here for the code       *)
(* points up to U+00FF and for the two Thai letters of the test at line    *)
(* 277; no other char is drawn.                                            *)

MaxNameLen == 3

\* '_'
Underscore == 95

\* '0'..'9': char::is_digit(10) knows only these.
Digits == 48..57

\* The code points up to U+00FF with the property Alphabetic: A-Z, a-z,
\* U+00AA, U+00B5, U+00BA, U+00C0-U+00D6, U+00D8-U+00F6, U+00F8-U+00FF.
Latin1Alphabetic ==
    (65..90) \cup (97..122) \cup {170, 181, 186}
      \cup (192..214) \cup (216..246) \cup (248..255)

\* The code points up to U+00FF of the categories Nd, Nl, No: the digits,
\* U+00B2, U+00B3, U+00B9 and U+00BC-U+00BE.
Latin1Numeric == Digits \cup {178, 179, 185} \cup (188..190)

\* U+0E07 and U+0E22, the Thai letters of the name of line 277.
ThaiLetters == {3591, 3618}

\* The chars whose classes are given.
Chars == (0..255) \cup ThaiLetters

\* char::is_alphanumeric: Alphabetic or Numeric.
is_alphanumeric(c) ==
    CASE c \in Latin1Alphabetic \cup Latin1Numeric \cup ThaiLetters -> TRUE
      [] c \in Chars \ (Latin1Alphabetic \cup Latin1Numeric \cup ThaiLetters) -> FALSE

\* char::is_digit(10).
is_digit(c) == c \in Digits

\* The code points up to U+00FF with the property Lowercase: a-z, U+00AA,
\* U+00B5, U+00BA, U+00DF-U+00F6, U+00F8-U+00FF; and with the property
\* Uppercase: A-Z, U+00C0-U+00D6, U+00D8-U+00DE.
Latin1Lowercase == (97..122) \cup {170, 181, 186} \cup (223..246) \cup (248..255)

Latin1Uppercase == (65..90) \cup (192..214) \cup (216..222)

\* char::is_lowercase and char::is_uppercase.
is_lowercase(c) ==
    CASE c \in Latin1Lowercase -> TRUE
      [] c \in Chars \ Latin1Lowercase -> FALSE

is_uppercase(c) ==
    CASE c \in Latin1Uppercase -> TRUE
      [] c \in Chars \ Latin1Uppercase -> FALSE

\* char::to_uppercase: the chars it yields.  U+00B5 gives U+039C, U+00DF
\* gives "SS", U+00FF gives U+0178; U+00AA and U+00BA have no uppercase.
to_uppercase(c) ==
    CASE c \in (97..122) \cup (224..246) \cup (248..254) -> << c - 32 >>
      [] c = 181 -> << 924 >>
      [] c = 223 -> << 83, 83 >>
      [] c = 255 -> << 376 >>
      [] c \in Chars \ ((97..122) \cup (223..246) \cup (248..255) \cup {181}) -> << c >>

\* char::len_utf8.
len_utf8(c) ==
    CASE c < 128 -> 1
      [] c >= 128 /\ c < 2048 -> 2
      [] c >= 2048 /\ c < 65536 -> 3
      [] c >= 65536 -> 4

\* String::len: the length in bytes of the UTF-8 text.
RECURSIVE len(_)
len(s) == IF s = << >> THEN 0 ELSE len_utf8(Head(s)) + len(Tail(s))

\* s.ends_with('_').
ends_with_underscore(s) == s # << >> /\ s[Len(s)] = Underscore

\* name.ends_with(|c: char| !c.is_alphanumeric()) of line 35.
ends_with_non_alphanumeric(s) == s # << >> /\ ~is_alphanumeric(s[Len(s)])

\* name.replace(|c| !c.is_alphanumeric() && c != '_', "_") of line 14.
ReplaceProblematic(name) ==
    [k \in 1..Len(name) |->
        IF ~is_alphanumeric(name[k]) /\ name[k] # Underscore
        THEN Underscore
        ELSE name[k]]

\* s.split(|c| !c.is_alphanumeric()): the pieces between the chars that
\* are not alphanumeric, the empty ones included.
RECURSIVE split_non_alphanumeric(_, _)
split_non_alphanumeric(s, piece) ==
    IF s = << >> THEN << piece >>
    ELSE IF ~is_alphanumeric(Head(s))
         THEN << piece >> \o split_non_alphanumeric(Tail(s), << >>)
         ELSE split_non_alphanumeric(Tail(s), Append(piece, Head(s)))

\* The inner loop of heck's transform over one piece: the words it hands
\* to with_word.  i is the char looked at, init the start of the word
\* under way, mode what the cased chars of that word were so far
\* ("Boundary": none yet).  A word ends after a lowercase char followed by
\* an uppercase one, and before the last of a run of uppercase chars that
\* a lowercase char follows; the chars left over are the last word.
RECURSIVE heck_words(_, _, _, _)
heck_words(word, i, init, mode) ==
    IF i > Len(word) THEN << >>
    ELSE IF i = Len(word) THEN << SubSeq(word, init, Len(word)) >>
    ELSE LET c == word[i]
             next == word[i + 1]
             next_mode == IF is_lowercase(c) THEN "Lowercase"
                          ELSE IF is_uppercase(c) THEN "Uppercase"
                          ELSE mode
         IN  IF next_mode = "Lowercase" /\ is_uppercase(next)
             THEN << SubSeq(word, init, i) >>
                    \o heck_words(word, i + 1, i + 1, "Boundary")
             ELSE IF mode = "Uppercase" /\ is_uppercase(c) /\ is_lowercase(next)
             THEN << SubSeq(word, init, i - 1) >>
                    \o heck_words(word, i + 1, i, "Boundary")
             ELSE heck_words(word, i + 1, init, next_mode)

\* heck's transform: the words of all pieces, in order.
RECURSIVE heck_transform(_)
heck_transform(pieces) ==
    IF pieces = << >> THEN << >>
    ELSE heck_words(Head(pieces), 1, 1, "Boundary") \o heck_transform(Tail(pieces))

\* heck's uppercase: every char of the word through char::to_uppercase.
RECURSIVE uppercase(_)
uppercase(word) ==
    IF word = << >> THEN << >>
    ELSE to_uppercase(Head(word)) \o uppercase(Tail(word))

\* The words in uppercase, with '_' between them.
RECURSIVE join_shouty(_)
join_shouty(words) ==
    IF words = << >> THEN << >>
    ELSE IF Len(words) = 1 THEN uppercase(Head(words))
    ELSE uppercase(Head(words)) \o << Underscore >> \o join_shouty(Tail(words))

\* sanitized.to_shouty_snake_case() of line 18 (crate heck).
to_shouty_snake_case(s) ==
    join_shouty(heck_transform(split_non_alphanumeric(s, << >>)))

\* Lines 22-24: a leading digit gets an underscore in front.
PrefixDigit(s) ==
    IF s # << >> /\ is_digit(s[1]) THEN << Underscore >> \o s ELSE s

\* Lines 27-28: Regex "_+" replaced by "_": of every run of underscores the
\* first one stays.
RECURSIVE CollapseUnderscores(_)
CollapseUnderscores(s) ==
    IF Len(s) <= 1 THEN s
    ELSE IF s[1] = Underscore /\ s[2] = Underscore
         THEN CollapseUnderscores(Tail(s))
         ELSE << s[1] >> \o CollapseUnderscores(Tail(s))

\* Lines 33-41: the trailing underscore goes only if the original name does
\* not end with a non-alphanumeric character.
TrimTrailing(s, name) ==
    IF ends_with_underscore(s) /\ len(s) > 1
    THEN IF ~ends_with_non_alphanumeric(name)
         THEN SubSeq(s, 1, Len(s) - 1)
         ELSE s
    ELSE s

\* The String "_empty_" of line 45.
EmptyName ==
    << 95, 101, 109, 112, 116, 121, 95 >>

\* sanitize_identifier(name, for_rust_constant).  The flag is false in the
\* C# and C++ writers (lines 58, 64, 93, 99) and true in the Rust writer
\* (lines 132, 136).
sanitize_identifier(name, for_rust_constant) ==
    LET replaced == ReplaceProblematic(name)
        cased == IF for_rust_constant THEN to_shouty_snake_case(replaced)
                 ELSE replaced
        sanitized == TrimTrailing(CollapseUnderscores(PrefixDigit(cased)), name)
    IN  IF sanitized = << >> THEN EmptyName ELSE sanitized

\* The names of the assertions of test_sanitize_identifier_various_cases
\* (lines 265-287).
TestNames ==
    {
      \* "dwEntityList"
      << 100, 119, 69, 110, 116, 105, 116, 121, 76, 105, 115, 116 >>,
      \* "client.dll"
      << 99, 108, 105, 101, 110, 116, 46, 100, 108, 108 >>,
      \* "engine-2.dll"
      << 101, 110, 103, 105, 110, 101, 45, 50, 46, 100, 108, 108 >>,
      \* "123_TestPattern"
      << 49, 50, 51, 95, 84, 101, 115, 116, 80, 97, 116, 116, 101, 114,
         110 >>,
      \* "player.health"
      << 112, 108, 97, 121, 101, 114, 46, 104, 101, 97, 108, 116, 104 >>,
      \* "another-pattern!"
      << 97, 110, 111, 116, 104, 101, 114, 45, 112, 97, 116, 116, 101,
         114, 110, 33 >>,
      \* "with_!" U+0E22 U+0E07 "$%&/()=?"
      << 119, 105, 116, 104, 95, 33, 3618, 3591, 36, 37, 38, 47, 40,
         41, 61, 63 >>,
      \* "_leading_underscore"
      << 95, 108, 101, 97, 100, 105, 110, 103, 95, 117, 110, 100, 101,
         114, 115, 99, 111, 114, 101 >>,
      \* "trailing_underscore_"
      << 116, 114, 97, 105, 108, 105, 110, 103, 95, 117, 110, 100, 101,
         114, 115, 99, 111, 114, 101, 95 >>,
      \* "multiple__underscores"
      << 109, 117, 108, 116, 105, 112, 108, 101, 95, 95, 117, 110, 100,
         101, 114, 115, 99, 111, 114, 101, 115 >>,
      \* ""
      << >>,
      \* "---"
      << 45, 45, 45 >> }

\* The chars the short names are made of: a, Z, 7, '_', '-', '!' and the
\* letter U+00E9, which is alphanumeric outside ASCII.
NameAlphabet == { 97, 90, 55, Underscore, 45, 33, 233 }

\* Every name over NameAlphabet of at most MaxNameLen chars.
ShortNames ==
    UNION { { [k \in 1..n |-> f[k]] : f \in [1..n -> NameAlphabet] } :
            n \in 0..MaxNameLen }

\* sanitize_identifier(name, for_rust_constant) is called; no pass of
\* offsets() is under way.
InitSanitize ==
    /\ process = ProcessOf({}, DefaultCaptures, SecondaryFound)
    /\ overflow_checks = FALSE
    /\ debug_enabled = FALSE
    /\ pc = "sanitize"
    /\ mi = 1
    /\ todo = << >>
    /\ offset_map = EmptyMap
    /\ pattern_map = EmptyMap
    /\ offset_map_all = EmptyMap
    /\ pattern_map_all = EmptyMap
    /\ result = Pending
    /\ trace = << >>
    /\ scans = [m \in ModuleNames |-> EmptyMap]
    /\ diag = EmptyMap
    /\ arg_name \in TestNames \cup ShortNames
    /\ arg_for_rust_constant \in BOOLEAN
    /\ sanitized_out = << >>

\* One call of sanitize_identifier, from entry to the returned String.
Sanitize ==
    /\ pc = "sanitize"
    /\ pc' = "sanitized"
    /\ sanitized_out' = sanitize_identifier(arg_name, arg_for_rust_constant)
    /\ UNCHANGED << process, overflow_checks, debug_enabled, mi, todo, offset_map, pattern_map, offset_map_all,
                    pattern_map_all, result, trace, scans, diag,
                    arg_name, arg_for_rust_constant >>

NextSanitize == Sanitize

SpecSanitize == InitSanitize /\ [][NextSanitize]_vars

\* A name with a letter or digit in it: its sanitized text is more than the
\* lone underscore that line 33 spares ("---" becomes "_", line 286).
HasAlphanumeric(name) == \E k \in 1..Len(name) : is_alphanumeric(name[k])

\* C12: sanitize_identifier(name, false) drops the trailing underscore that
\* comes from replacing a trailing special character, and keeps the one the
\* name already had: for a name that ends in a non-alphanumeric character
\* other than '_' the result does not end with '_' ("another-pattern!"
\* gives "another_pattern"), and for a name that ends in '_' the result
\* ends with '_'.
C12_TrailingUnderscoreOnlyIfOriginal ==
    (pc = "sanitized" /\ arg_for_rust_constant = FALSE) =>
        /\ ( /\ ends_with_non_alphanumeric(arg_name)
             /\ ~ends_with_underscore(arg_name)
             /\ HasAlphanumeric(arg_name) )
               => ~ends_with_underscore(sanitized_out)
        /\ ends_with_underscore(arg_name) => ends_with_underscore(sanitized_out)

--------------------------------------------------------------------------
(* The pass with the loop of each resolver free to visit the entries of    *)
(* PATTERNS in any order: what `for .. in &PATTERNS` does under some       *)
(* layout of the perfect-hash map.  `todo` holds the indices not yet       *)
(* visited, in declaration order.                                          *)

\* The processes these passes run on: every pattern found, in images at
\* ImageBase u64::MAX; the secondary
\* scan and one pattern of client, engine2 and soundsystem each not found
\* (among them the one whose callback writes under its own name); and
\* captures with which both additions of client's callbacks leave u32.
AnyOrderProcesses ==
    { WithImageBase(ProcessOf({}, DefaultCaptures, SecondaryFound), ImageBaseMax),
      ProcessOf({ << 1, EntryNamed(1, "dwWeaponC4") >>, LocalPlayerEntry,
                  << 5, EntryNamed(5, "dwSoundSystem") >> },
                DefaultCaptures, NotFound),
      ProcessOf({}, [DefaultCaptures EXCEPT ![PredictionEntry] = RvaNearMax],
                Found(Rva(24576), NegativeDisplacement)) }

\* The dev profile with the logger at debug level, and the release profile
\* with the logger above it.
AnyOrderEnvironments ==
    { [overflow_checks |-> TRUE, debug_enabled |-> TRUE],
      [overflow_checks |-> FALSE, debug_enabled |-> FALSE] }

InitAnyOrder == InitPass(AnyOrderProcesses, AnyOrderEnvironments)

\* The sequence s without its k-th element.
Without(s, k) == SubSeq(s, 1, k - 1) \o SubSeq(s, k + 1, Len(s))

\* offsets_fn(view) is entered; which entry the map's iterator yields next
\* is left to each iteration.
ResolverEnterAnyOrder == Enter({ [k \in 1..Len(PATTERNS(mi)) |-> k] })

\* One iteration of the loop of lines 40-58, at whichever entry the map's
\* iterator yields next.
ScanAnyPattern ==
    /\ pc = "scan"
    /\ todo # << >>
    /\ \E k \in 1..Len(todo) : Iteration(todo[k], Without(todo, k))

NextAnyOrder ==
    \/ ModuleByName
    \/ ReadRaw
    \/ FromBytes
    \/ ResolverEnterAnyOrder
    \/ ScanAnyPattern
    \/ ResolverReturn
    \/ AggregateInsert

SpecAnyOrder == InitAnyOrder /\ [][NextAnyOrder]_vars

\* The two maps after the loop body ran over the entries `order` of module
\* i, one after the other, on the view of the module, starting from `acc`.
RECURSIVE ResolveInOrder(_, _, _)
ResolveInOrder(i, order, acc) ==
    IF order = << >> THEN acc
    ELSE LET r == LoopBody(PATTERNS(i)[Head(order)], process[modules[i].name],
                           acc.offset_map, acc.pattern_map)
         IN  ResolveInOrder(i, Tail(order),
                            [offset_map |-> r.offset_map,
                             pattern_map |-> r.pattern_map])

\* The entries of module i visited so far, in declaration order.
VisitedInDeclarationOrder(i) ==
    SelectSeq([k \in 1..Len(PATTERNS(i)) |-> k],
              LAMBDA k : PATTERNS(i)[k].name \in DOMAIN Scanned(i))

\* The names the callback of entry j of module i writes in this process:
\* none when the primary scan finds nothing, for then it does not run.
CallbackWrites(i, j) ==
    LET entry == PATTERNS(i)[j]
        view == process[modules[i].name]
        scan == finds_code(view, entry.pattern)
    IN  IF scan.found
        THEN Keys(CallCallback(entry.callback, view, EmptyMap, scan.save[1]).map)
        ELSE {}

\* C13: whatever order the loop visits the entries of a module in, the
\* offset map and the signature-text map are the ones the declaration order
\* gives on the same scan answers -- after every iteration for the entries
\* visited so far, and so for the whole catalog when the resolver returns;
\* in a build with overflow checks the resolver returns in no order when a
\* callback's arithmetic or an address of the debug! lines overflows; and each callback of the module
\* resolved writes only its own pattern's name or a name that no pattern of
\* the module and no other callback writes.
C13_ResultIndependentOfOrder ==
    /\ pc \in {"scan", "insert"} =>
           LET ref == ResolveInOrder(mi, VisitedInDeclarationOrder(mi),
                                     [offset_map |-> EmptyMap, pattern_map |-> EmptyMap])
           IN  /\ offset_map = ref.offset_map
               /\ pattern_map = ref.pattern_map
    /\ pc = "insert" =>
           VisitedInDeclarationOrder(mi) = [k \in 1..Len(PATTERNS(mi)) |-> k]
    /\ (pc = "insert" /\ overflow_checks) =>
           /\ \A j \in 1..Len(PATTERNS(mi)) :
                  ~LoopBody(PATTERNS(mi)[j], process[modules[mi].name],
                            EmptyMap, EmptyMap).overflow
           /\ debug_enabled =>
                  LogFoundOffsets(mi, process[modules[mi].name], offset_map) = << >>
    /\ pc = "insert" =>
           \A j \in 1..Len(PATTERNS(mi)) :
               \A n \in CallbackWrites(mi, j) \ {PATTERNS(mi)[j].name} :
                   /\ n \notin PatternNames(mi)
                   /\ \A k \in 1..Len(PATTERNS(mi)) :
                          k # j => n \notin CallbackWrites(mi, k)

\* The loop of client's resolver has visited dwViewRender, then dwPrediction
\* and dwCSGOInput and nothing else, which no prefix of the declaration
\* order is; both callbacks have written their derived names.
C13_Witness ==
    /\ pc = "scan"
    /\ mi = 1
    /\ DOMAIN Scanned(1) = {"dwViewRender", "dwPrediction", "dwCSGOInput"}
    /\ Scanned(1)["dwCSGOInput"].secondary.found
    /\ DOMAIN offset_map = {"dwViewRender", "dwPrediction", "dwCSGOInput",
                            "dwViewAngles", "dwLocalPlayerPawn"}
    /\ DOMAIN pattern_map = DOMAIN Scanned(1)

====
